---- MODULE Spec2Model ----
(***************************************************************************)
(* The M/M/n queue simulation of simulacion_mesa: QueueModel of            *)
(* implementacion.py, QueueModel of grafica.py (the same model plus the    *)
(* per-tick samples) and QueueSimulation of implementacion2.py (one shared *)
(* `throughput` counter).                                                  *)
(*                                                                         *)
(* Conventions                                                             *)
(*  - Customers are objects: `customers` is the heap, a customer is named  *)
(*    by its index in it (its identity); the queue, the servers and the    *)
(*    scheduler hold such references.                                      *)
(*  - mesa's scheduler keeps its agents in insertion order and registers   *)
(*    them by object identity, so a server and a customer that carry the   *)
(*    same unique_id are both kept (agents[k].unique_id records the id     *)
(*    each was registered under); schedule.step() calls step() on every    *)
(*    agent in that order, then advance() (a no-op for these agents), then *)
(*    adds 1 to schedule.time.                                             *)
(*  - mean_arrival_rate is kept in hundredths; random.random() draws a     *)
(*    value in hundredths from UniformDraws.                               *)
(*  - A service duration d is a real; it is only ever read by the test     *)
(*    `schedule.time >= dispatch_tick + d` against the integer clock, so   *)
(*    the model draws ceil(d), the number of whole ticks to wait.          *)
(*  - A quotient x / y is kept exact as the pair <<x, y>>.                 *)
(***************************************************************************)
EXTENDS Integers, Sequences, FiniteSets

\* ---------------------------------------------------------------- bounds
MaxTicks == 4
MaxServers == 2
MaxDur == 1

\* The driver calls run_simulation twice on the same model.
DriverRuns == 2

\* None, for a tick (time_entered_service) and for a customer reference.
NoneTick == -1
NoneRef == 0

Variants == {"implementacion", "grafica", "implementacion2"}
ArrivalRates == {-50, 0, 50, 100}
MeanServiceTimes == {-1, 0, 1}
ServerCounts == -1 .. MaxServers
TickLimits == -1 .. MaxTicks
UniformDraws == {0, 75}

\* The values random.expovariate(1 / mean) can return, as whole ticks:
\* >= 0 for a positive mean (short ones, and one that outlasts every run),
\* <= 0 for a negative one (all alike: the completion test holds at once).
Durations(mean) == IF mean > 0 THEN (0 .. MaxDur) \cup {MaxTicks + 1} ELSE {-1}

VARIABLES
    variant,                 \* which of the three source files runs
    mean_arrival_rate, mean_service_time, number_of_servers, max_ticks,
    pc,                      \* "new" | "ready" | "running" | "failed"
    time,                    \* schedule.time
    agents,                  \* schedule.agents, in insertion order
    servers,                 \* the ServerAgent objects, by position
    customers,               \* the CustomerAgent objects (heap)
    queue,                   \* model.queue: customer references
    total_time_in_queue, total_time_in_system,
    total_queue_throughput, total_system_throughput,
    throughput,              \* implementacion2.py's only counter
    queue_lengths, servers_busy,   \* grafica.py's samples
    rng_draws,               \* number of values drawn from `random`
    result,                  \* what the last run_simulation returned
    runs,                    \* run_simulation calls that returned
    \* ---- history (observations, never read by the program)
    lastOp,                  \* the operation that acted last ("step_noop":
                             \* a step() that found no tick left)
    tickLog,                 \* clock value at the start of each executed tick
    dispatchLog,             \* customer references in dequeue order
    episodes,                \* the service episodes, in dispatch order:
                             \* customer, server, start tick, duration
                             \* drawn, completion tick (NoneTick: not yet)
    durs,                    \* the durations drawn so far
    busyObs                  \* busy servers at the end of each executed tick

vars == <<variant, mean_arrival_rate, mean_service_time, number_of_servers,
          max_ticks, pc, time, agents, servers, customers, queue,
          total_time_in_queue, total_time_in_system, total_queue_throughput,
          total_system_throughput, throughput, queue_lengths, servers_busy,
          rng_draws, result, runs, lastOp, tickLog, dispatchLog, episodes,
          durs, busyObs>>

config == <<variant, mean_arrival_rate, mean_service_time, number_of_servers,
            max_ticks>>

\* ------------------------------------------------------------- helpers
RECURSIVE SumSeq(_)
SumSeq(s) == IF s = <<>> THEN 0 ELSE Head(s) + SumSeq(Tail(s))

InSeq(x, s) == \E i \in 1 .. Len(s) : s[i] = x

\* Python's `x / y if y > 0 else 0`. A pair with denominator 0 stands for the
\* ZeroDivisionError of an unguarded x / 0.
DivOrZero_Unguarded(x, y) == <<x, y>>

DivOrZero(x, y) == IF y > 0 THEN <<x, y>> ELSE <<0, 1>>

\* Equality of two exact quotients (positive denominators).
SameQuotient(a, b) == a[1] * b[2] = b[1] * a[2]

\* The model object as one record, for the operators below; `stream` is what
\* random.expovariate will return, call by call, during the current tick.
ModelObj ==
    [queue |-> queue, servers |-> servers, customers |-> customers,
     agents |-> agents,
     total_time_in_queue |-> total_time_in_queue,
     total_time_in_system |-> total_time_in_system,
     total_queue_throughput |-> total_queue_throughput,
     total_system_throughput |-> total_system_throughput,
     throughput |-> throughput,
     rng_draws |-> rng_draws, raised |-> FALSE, stream |-> <<>>,
     dispatchLog |-> dispatchLog, episodes |-> episodes, durs |-> durs]

\* ---------------------------------------------------------- the agents
\* CustomerAgent.__init__ / Client.__init__
NewCustomer(id, t) ==
    [unique_id |-> id, time_entered_queue |-> t, time_entered_service |-> NoneTick]

\* ServerAgent.__init__ / Server.__init__
NewServer(id) ==
    [unique_id |-> id, customer_being_served |-> NoneRef, next_completion_time |-> 0]

\* CustomerAgent.step: a customer still in the queue with no service-start
\* tick stamps itself with the current tick.
CustomerStep(m, c, t) ==
    IF m.customers[c].time_entered_service = NoneTick /\ InSeq(c, m.queue)
    THEN [m EXCEPT !.customers[c].time_entered_service = t]
    ELSE m

\* model.queue.pop(0): <<the customer taken, the rest>>
QueuePop_Last(q) == <<q[Len(q)], SubSeq(q, 1, Len(q) - 1)>>

QueuePop(q) == <<Head(q), Tail(q)>>

\* ServerAgent.step, first block: an idle server takes the head of the queue.
\* 1 / mean_service_time raises ZeroDivisionError for a zero mean, after the
\* customer was taken and stamped.
Dispatch(m, i, t, mean) ==
    IF m.servers[i].customer_being_served = NoneRef /\ Len(m.queue) > 0
    THEN LET p == QueuePop(m.queue)
             c == p[1]
             m1 == [m EXCEPT !.queue = p[2],
                             !.servers[i].customer_being_served = c,
                             !.customers[c].time_entered_service = t,
                             !.dispatchLog = Append(@, c)]
         IN  IF mean = 0
             THEN [m1 EXCEPT !.raised = TRUE]
             ELSE LET d == Head(m.stream)
                  IN  [m1 EXCEPT !.servers[i].next_completion_time = t + d,
                                 !.stream = Tail(@),
                                 !.rng_draws = @ + 1,
                                 !.durs = @ \cup {d},
                                 !.episodes =
                                     Append(@, [customer |-> c, server |-> i,
                                                start |-> t, duration |-> d,
                                                done |-> NoneTick])]
    ELSE m

\* The completion counter: total_system_throughput, or implementacion2.py's
\* shared throughput.
CountCompletion_Skip(m, v) == m

CountCompletion(m, v) ==
    IF v = "implementacion2"
    THEN [m EXCEPT !.throughput = @ + 1]
    ELSE [m EXCEPT !.total_system_throughput = @ + 1]

\* The episode of customer c is recorded as completed at tick t.
MarkDone(eps, c, t) ==
    [k \in 1 .. Len(eps) |->
        IF eps[k].customer = c /\ eps[k].done = NoneTick
        THEN [eps[k] EXCEPT !.done = t]
        ELSE eps[k]]

\* ServerAgent.step, second block: the service has elapsed.
Complete_NoRelease(m, i, t, v) ==
    LET s == m.servers[i]
        c == s.customer_being_served
    IN  IF t >= s.next_completion_time /\ c # NoneRef
        THEN LET cu == m.customers[c]
                 m1 == [m EXCEPT
                          !.total_time_in_system = @ + (t - cu.time_entered_queue),
                          !.total_time_in_queue =
                              @ + (cu.time_entered_service - cu.time_entered_queue),
                          !.episodes = MarkDone(@, c, t)]
             IN  CountCompletion(m1, v)
        ELSE m

Complete_Early(m, i, t, v) ==
    LET s == m.servers[i]
        c == s.customer_being_served
    IN  IF c # NoneRef
        THEN LET cu == m.customers[c]
                 m1 == [m EXCEPT
                          !.total_time_in_system = @ + (t - cu.time_entered_queue),
                          !.total_time_in_queue =
                              @ + (cu.time_entered_service - cu.time_entered_queue),
                          !.servers[i].customer_being_served = NoneRef,
                          !.episodes = MarkDone(@, c, t)]
             IN  CountCompletion(m1, v)
        ELSE m

Complete(m, i, t, v) ==
    LET s == m.servers[i]
        c == s.customer_being_served
    IN  IF t >= s.next_completion_time /\ c # NoneRef
        THEN LET cu == m.customers[c]
                 m1 == [m EXCEPT
                          !.total_time_in_system = @ + (t - cu.time_entered_queue),
                          !.total_time_in_queue =
                              @ + (cu.time_entered_service - cu.time_entered_queue),
                          !.servers[i].customer_being_served = NoneRef,
                          !.episodes = MarkDone(@, c, t)]
             IN  CountCompletion(m1, v)
        ELSE m

\* ServerAgent.step
ServerStep(m, i, t, mean, v) ==
    LET m1 == Dispatch(m, i, t, mean)
    IN  IF m1.raised THEN m1 ELSE Complete(m1, i, t, v)

\* The first loop of SimultaneousActivation.step: step() on every agent in
\* insertion order; an exception ends it.
RECURSIVE StepAgents_Reverse(_, _, _, _, _)
StepAgents_Reverse(m, k, t, mean, v) ==
    IF k > Len(m.agents) \/ m.raised
    THEN m
    ELSE LET a == m.agents[Len(m.agents) - k + 1]
             m1 == IF a.kind = "server"
                   THEN ServerStep(m, a.ref, t, mean, v)
                   ELSE CustomerStep(m, a.ref, t)
         IN  StepAgents_Reverse(m1, k + 1, t, mean, v)

RECURSIVE StepAgents(_, _, _, _, _)
StepAgents(m, k, t, mean, v) ==
    IF k > Len(m.agents) \/ m.raised
    THEN m
    ELSE LET a == m.agents[k]
             m1 == IF a.kind = "server"
                   THEN ServerStep(m, a.ref, t, mean, v)
                   ELSE CustomerStep(m, a.ref, t)
         IN  StepAgents(m1, k + 1, t, mean, v)

\* The id handed to a new customer: total_queue_throughput, or
\* implementacion2.py's throughput.
NextCustomerId(m, v) ==
    IF v = "implementacion2" THEN m.throughput ELSE m.total_queue_throughput

\* The arrival counter.
CountArrival_Twice(m, v) ==
    IF v = "implementacion2"
    THEN [m EXCEPT !.throughput = @ + 2]
    ELSE [m EXCEPT !.total_queue_throughput = @ + 2]

CountArrival(m, v) ==
    IF v = "implementacion2"
    THEN [m EXCEPT !.throughput = @ + 1]
    ELSE [m EXCEPT !.total_queue_throughput = @ + 1]

\* QueueModel.step, the arrival: one uniform draw; below the rate, a new
\* customer is created, registered and appended to the queue.
Admit_NoEnqueue(m, u, rate, t, v) ==
    LET m0 == [m EXCEPT !.rng_draws = @ + 1]
    IN  IF u < rate
        THEN LET c == Len(m.customers) + 1
                 m1 == [m0 EXCEPT
                          !.customers = Append(@, NewCustomer(NextCustomerId(m, v), t)),
                          !.agents = Append(@, [kind |-> "customer", ref |-> c,
                                                unique_id |-> NextCustomerId(m, v)])]
             IN  CountArrival(m1, v)
        ELSE m0

Admit(m, u, rate, t, v) ==
    LET m0 == [m EXCEPT !.rng_draws = @ + 1]
    IN  IF u < rate
        THEN LET c == Len(m.customers) + 1
                 m1 == [m0 EXCEPT
                          !.customers = Append(@, NewCustomer(NextCustomerId(m, v), t)),
                          !.agents = Append(@, [kind |-> "customer", ref |-> c,
                                                unique_id |-> NextCustomerId(m, v)]),
                          !.queue = Append(@, c)]
             IN  CountArrival(m1, v)
        ELSE m0

\* The number of servers of the scheduler that hold a customer.
BusyCount(ags, srv) ==
    Cardinality({k \in 1 .. Len(ags) :
                    /\ ags[k].kind = "server"
                    /\ srv[ags[k].ref].customer_being_served # NoneRef})

\* `if self.schedule.time < self.max_ticks` of step() and the loop test of
\* run_simulation.
TicksLeft_Inclusive(t, limit) == t <= limit

TicksLeft(t, limit) == t < limit

\* schedule.time after schedule.step().
AdvanceClock_Twice(t) == t + 2

AdvanceClock(t) == t + 1

\* ------------------------------------------------------------- actions
Init ==
    /\ variant \in Variants
    /\ mean_arrival_rate \in ArrivalRates
    /\ mean_service_time \in MeanServiceTimes
    /\ number_of_servers \in ServerCounts
    /\ max_ticks \in TickLimits
    /\ pc = "new"
    /\ time = 0
    /\ agents = <<>>
    /\ servers = <<>>
    /\ customers = <<>>
    /\ queue = <<>>
    /\ total_time_in_queue = 0
    /\ total_time_in_system = 0
    /\ total_queue_throughput = 0
    /\ total_system_throughput = 0
    /\ throughput = 0
    /\ queue_lengths = <<>>
    /\ servers_busy = <<>>
    /\ rng_draws = 0
    /\ result = <<>>
    /\ runs = 0
    /\ lastOp = "none"
    /\ tickLog = <<>>
    /\ dispatchLog = <<>>
    /\ episodes = <<>>
    /\ durs = {}
    /\ busyObs = <<>>

\* QueueModel.__init__ / QueueSimulation.__init__: no argument is checked;
\* range(n) is empty for n <= 0.
Construct ==
    /\ pc = "new"
    /\ pc' = "ready"
    /\ servers' = [i \in 1 .. number_of_servers |-> NewServer(i - 1)]
    /\ agents' = [i \in 1 .. number_of_servers |->
                    [kind |-> "server", ref |-> i, unique_id |-> i - 1]]
    /\ lastOp' = "construct"
    /\ UNCHANGED <<config, time, customers, queue, total_time_in_queue,
                   total_time_in_system, total_queue_throughput,
                   total_system_throughput, throughput, queue_lengths,
                   servers_busy, rng_draws, result, runs, tickLog, dispatchLog,
                   episodes, durs, busyObs>>

\* How many times random.expovariate is called in a tick whose arrival draw
\* is u: once per idle server, in order, while the queue lasts.
DrawsInTick(u) ==
    LET idle == Cardinality({i \in 1 .. Len(servers) :
                               servers[i].customer_being_served = NoneRef})
        waiting == Len(queue) + (IF u < mean_arrival_rate THEN 1 ELSE 0)
    IN  IF ~TicksLeft(time, max_ticks) \/ mean_service_time = 0 THEN 0
        ELSE IF idle < waiting THEN idle ELSE waiting

\* The values random.expovariate returns during one tick, call by call.
DurationStreams(u) == [1 .. DrawsInTick(u) -> Durations(mean_service_time)]

\* The body of QueueModel.step() for the draws u (arrival) and ds (the
\* service durations, in the order they are drawn); `op` names the caller
\* and `after` the position it continues at.
StepBody(u, ds, op, after) ==
    /\ UNCHANGED <<config, result, runs>>
    /\ IF TicksLeft(time, max_ticks)
       THEN LET m1 == Admit(ModelObj, u, mean_arrival_rate, time, variant)
                m2 == StepAgents([m1 EXCEPT !.stream = ds], 1, time,
                                 mean_service_time, variant)
                busy == BusyCount(m2.agents, m2.servers)
            IN  /\ lastOp' = op
                /\ queue' = m2.queue
                /\ servers' = m2.servers
                /\ customers' = m2.customers
                /\ agents' = m2.agents
                /\ total_time_in_queue' = m2.total_time_in_queue
                /\ total_time_in_system' = m2.total_time_in_system
                /\ total_queue_throughput' = m2.total_queue_throughput
                /\ total_system_throughput' = m2.total_system_throughput
                /\ throughput' = m2.throughput
                /\ rng_draws' = m2.rng_draws
                /\ dispatchLog' = m2.dispatchLog
                /\ episodes' = m2.episodes
                /\ durs' = m2.durs
                /\ IF m2.raised
                   THEN /\ pc' = "failed"
                        /\ UNCHANGED <<time, queue_lengths, servers_busy,
                                       tickLog, busyObs>>
                   ELSE /\ pc' = after
                        /\ time' = AdvanceClock(time)
                        /\ tickLog' = Append(tickLog, time)
                        /\ busyObs' = Append(busyObs, busy)
                        /\ IF variant = "grafica"
                           THEN /\ queue_lengths' = Append(queue_lengths, Len(m2.queue))
                                /\ servers_busy' = Append(servers_busy, busy)
                           ELSE UNCHANGED <<queue_lengths, servers_busy>>
       ELSE /\ lastOp' = "step_noop"
            /\ pc' = after
            /\ UNCHANGED <<time, agents, servers, customers, queue,
                           total_time_in_queue, total_time_in_system,
                           total_queue_throughput, total_system_throughput,
                           throughput, queue_lengths, servers_busy, rng_draws,
                           tickLog, dispatchLog, episodes, durs, busyObs>>

\* step() called on the model by its user, outside run_simulation.
Step ==
    /\ pc = "ready"
    /\ \E u \in UniformDraws :
       \E ds \in DurationStreams(u) :
          StepBody(u, ds, "step", "ready")

\* run_simulation() is called.
RunCall_Restart ==
    /\ pc = "ready"
    /\ runs < DriverRuns
    /\ pc' = "running"
    /\ time' = 0
    /\ lastOp' = "run_call"
    /\ UNCHANGED <<config, agents, servers, customers, queue,
                   total_time_in_queue, total_time_in_system,
                   total_queue_throughput, total_system_throughput, throughput,
                   queue_lengths, servers_busy, rng_draws, result, runs,
                   tickLog, dispatchLog, episodes, durs, busyObs>>

RunCall ==
    /\ pc = "ready"
    /\ runs < DriverRuns
    /\ pc' = "running"
    /\ lastOp' = "run_call"
    /\ UNCHANGED <<config, time, agents, servers, customers, queue,
                   total_time_in_queue, total_time_in_system,
                   total_queue_throughput, total_system_throughput, throughput,
                   queue_lengths, servers_busy, rng_draws, result, runs,
                   tickLog, dispatchLog, episodes, durs, busyObs>>

\* One iteration of `while self.schedule.time < self.max_ticks: self.step()`.
RunLoop ==
    /\ pc = "running"
    /\ TicksLeft(time, max_ticks)
    /\ \E u \in UniformDraws :
       \E ds \in DurationStreams(u) :
          StepBody(u, ds, "run_loop", "running")

\* The divisor of the average wait: the arrival counter (in
\* implementacion2.py the shared counter).
WaitDivisor == IF variant = "implementacion2" THEN throughput ELSE total_queue_throughput

\* The divisor of the average time in system.
SystemDivisor == IF variant = "implementacion2" THEN throughput ELSE total_system_throughput

\* avg_servers_busy: grafica.py averages its samples; the other two divide
\* the number of servers busy now by the clock.
AvgServersBusy_NoDivide ==
    IF variant = "grafica"
    THEN <<SumSeq(servers_busy), 1>>
    ELSE <<BusyCount(agents, servers), 1>>

AvgServersBusy ==
    IF variant = "grafica"
    THEN DivOrZero(SumSeq(servers_busy), Len(servers_busy))
    ELSE DivOrZero(BusyCount(agents, servers), time)

\* The metrics run_simulation returns.
Metrics ==
    [avg_time_in_queue |-> DivOrZero(total_time_in_queue, WaitDivisor),
     avg_time_in_system |-> DivOrZero(total_time_in_system, SystemDivisor),
     avg_queue_length |-> DivOrZero(total_time_in_queue, time),
     avg_servers_busy |-> AvgServersBusy]

\* The loop of run_simulation is over: compute and return the metrics.
RunReturn ==
    /\ pc = "running"
    /\ ~TicksLeft(time, max_ticks)
    /\ pc' = "ready"
    /\ result' = Metrics
    /\ runs' = runs + 1
    /\ lastOp' = "run_return"
    /\ UNCHANGED <<config, time, agents, servers, customers, queue,
                   total_time_in_queue, total_time_in_system,
                   total_queue_throughput, total_system_throughput, throughput,
                   queue_lengths, servers_busy, rng_draws, tickLog,
                   dispatchLog, episodes, durs, busyObs>>

Next == Construct \/ Step \/ RunCall \/ RunLoop \/ RunReturn

Spec == Init /\ [][Next]_vars

\* ============================================================ the claims
\* The configurations the engine is specified for: what section 7 of the
\* specification wants rejected is not one of them.
ValidConfig ==
    /\ mean_arrival_rate >= 0
    /\ mean_service_time > 0
    /\ number_of_servers >= 0
    /\ max_ticks >= 0

IsQueueModel == variant \in {"implementacion", "grafica"}

BusyServers == Cardinality({i \in 1 .. Len(servers) :
                              servers[i].customer_being_served # NoneRef})

\* Customers whose service episode is over: dequeued and no longer held.
CompletedCount == Len(dispatchLog) - BusyServers

Returned == lastOp = "run_return"

\* C1: in QueueModel, after every tick, the completed customers
\* (total_system_throughput) are at most the admitted ones
\* (total_queue_throughput), for any servers, arrivals and durations.
C1_CompletedAtMostAdmitted ==
    IsQueueModel => total_system_throughput <= total_queue_throughput

C1_Witness ==
    /\ IsQueueModel
    /\ lastOp \in {"step", "run_loop"}
    /\ total_system_throughput >= 1
    /\ total_system_throughput = total_queue_throughput

\* C2: customers are dispatched strictly in arrival order: the dequeue
\* order is the admission order, every waiting customer was admitted after
\* every dequeued one, and service-start ticks never decrease along it.
C2_FifoDispatch ==
    /\ \A i, j \in 1 .. Len(dispatchLog) :
          i < j =>
            /\ dispatchLog[i] < dispatchLog[j]
            /\ customers[dispatchLog[i]].time_entered_service
                 <= customers[dispatchLog[j]].time_entered_service
    /\ \A i \in 1 .. Len(dispatchLog), k \in 1 .. Len(queue) :
          dispatchLog[i] < queue[k]
    /\ \A k, l \in 1 .. Len(queue) : k < l => queue[k] < queue[l]

\* Two customers were queued at the same time; the earlier one, which had
\* waited, has been dequeued, the later one is still at the head of the queue.
C2_Witness ==
    /\ Len(dispatchLog) >= 2
    /\ Len(queue) >= 1
    /\ LET a == customers[dispatchLog[Len(dispatchLog)]]
           b == customers[queue[1]]
       IN  /\ a.time_entered_queue < a.time_entered_service
           /\ b.time_entered_queue <= a.time_entered_service

\* C3: the returned average wait is the accumulated wait divided by the
\* number of customers that completed service, and 0 when none completed.
C3_AvgWaitOverCompleted ==
    Returned =>
        IF CompletedCount > 0
        THEN SameQuotient(result.avg_time_in_queue,
                          <<total_time_in_queue, CompletedCount>>)
        ELSE result.avg_time_in_queue[1] = 0

\* C4: one server, an arrival in every tick and every drawn duration at most
\* one tick: every customer is dequeued in its arrival tick (nobody is left
\* waiting at the end of a tick) and the returned average wait is 0.
C4_ShortServiceNoWait ==
    (/\ ValidConfig
     /\ number_of_servers = 1
     /\ mean_arrival_rate = 100
     /\ durs \subseteq {0, 1}
     /\ pc \in {"ready", "running"})
    => /\ queue = <<>>
       /\ \A i \in 1 .. Len(dispatchLog) :
             customers[dispatchLog[i]].time_entered_service
               = customers[dispatchLog[i]].time_entered_queue
       /\ Returned => result.avg_time_in_queue[1] = 0

\* C5: for a valid configuration, run_simulation runs to its return: the
\* ticks executed so far are 0, 1, ..., clock - 1, each once and in order
\* (every tick advances the clock by exactly one), the clock never passes
\* max_ticks, a run in progress never fails and never spends a loop
\* iteration without executing a tick, it returns once the clock has reached
\* max_ticks, and at the return the clock is max_ticks whatever is still
\* queued or in service.
C5_RunExactlyMaxTicks ==
    ValidConfig =>
        /\ tickLog = [i \in 1 .. time |-> i - 1]
        /\ time <= max_ticks
        /\ pc # "failed"
        /\ pc = "running" =>
              /\ lastOp # "step_noop"
              /\ ~(time < max_ticks) => ENABLED RunReturn
        /\ Returned => time = max_ticks

C5_Witness ==
    /\ ValidConfig
    /\ Returned
    /\ runs = 1
    /\ max_ticks >= 2
    /\ Len(queue) >= 1
    /\ BusyServers >= 1

\* C6: step() at clock >= max_ticks changes nothing of the model (clock,
\* queue, servers, customers, scheduler, counters, totals, samples) and
\* draws no random value; at clock < max_ticks, on a valid configuration, it
\* advances the clock by exactly one.
C6_StepFrame ==
    [][lastOp' \in {"step", "step_noop", "run_loop"} =>
         IF time >= max_ticks
         THEN UNCHANGED <<time, queue, servers, customers, agents,
                          total_time_in_queue, total_time_in_system,
                          total_queue_throughput, total_system_throughput,
                          throughput, queue_lengths, servers_busy, rng_draws>>
         ELSE ValidConfig => time' = time + 1]_vars

C6_Witness ==
    /\ lastOp = "step_noop"
    /\ max_ticks >= 1
    /\ time = max_ticks
    /\ Len(queue) >= 1
    /\ BusyServers >= 1

\* C7: a non-positive mean_service_time, a negative arrival_probability or a
\* negative server_count or max_ticks is rejected at construction: every
\* model that exists has a valid configuration.
C7_InvalidConfigRejected ==
    pc # "new" => ValidConfig

\* C8: in implementacion.py and grafica.py the returned avg_servers_busy is
\* the mean, over the executed ticks, of the busy servers observed at the
\* end of each tick.
C8_AvgBusyIsMeanOfTicks ==
    (IsQueueModel /\ Returned) =>
        IF Len(busyObs) > 0
        THEN SameQuotient(result.avg_servers_busy,
                          <<SumSeq(busyObs), Len(busyObs)>>)
        ELSE result.avg_servers_busy[1] = 0

\* C9: with server_count >= 1, the returned avg_servers_busy lies between 0
\* and server_count.
C9_AvgBusyBounded ==
    (Returned /\ number_of_servers >= 1) =>
        /\ 0 <= result.avg_servers_busy[1]
        /\ result.avg_servers_busy[1]
             <= number_of_servers * result.avg_servers_busy[2]

C9_Witness ==
    /\ Returned
    /\ number_of_servers >= 1
    /\ time >= 2
    /\ result.avg_servers_busy[1] > 0
    /\ result.avg_servers_busy[1] < number_of_servers * result.avg_servers_busy[2]

\* C10: with max_ticks = 0 no tick is executed, no customer is admitted and
\* the four returned metrics are 0, for any other argument.
C10_ZeroTicks ==
    max_ticks = 0 =>
        /\ tickLog = <<>>
        /\ time = 0
        /\ customers = <<>>
        /\ total_queue_throughput = 0
        /\ throughput = 0
        /\ Returned =>
             /\ result.avg_time_in_queue[1] = 0
             /\ result.avg_time_in_system[1] = 0
             /\ result.avg_queue_length[1] = 0
             /\ result.avg_servers_busy[1] = 0

C10_Witness ==
    /\ max_ticks = 0
    /\ Returned
    /\ mean_arrival_rate = 100
    /\ number_of_servers >= 1

\* The number of customers admitted so far.
Admitted == Len(customers)

\* A quotient that is defined (no division fault) and equal to 0.
IsZero(q) == q[1] = 0 /\ q[2] > 0

\* C11: when no customer completed during the run (no arrival at all
\* included), run_simulation returns, without a division fault,
\* avg_time_in_queue = 0 and avg_time_in_system = 0; with one server, an
\* arrival in every tick and no completion, the customers arrived are
\* max_ticks (5 in the specification's scenario) and none completed.
C11_NoCompletionSentinel ==
    /\ (pc = "running" /\ ~(time < max_ticks) /\ CompletedCount = 0)
          => ENABLED RunReturn
    /\ (Returned /\ CompletedCount = 0) =>
          /\ IsZero(result.avg_time_in_queue)
          /\ IsZero(result.avg_time_in_system)
          /\ (ValidConfig /\ number_of_servers = 1 /\ mean_arrival_rate = 100) =>
                /\ Admitted = max_ticks
                /\ IsQueueModel => /\ total_queue_throughput = max_ticks
                                   /\ total_system_throughput = 0
                /\ variant = "implementacion2" => throughput = max_ticks

C11_Witness ==
    /\ Returned
    /\ CompletedCount = 0
    /\ number_of_servers = 1
    /\ mean_arrival_rate = 100
    /\ max_ticks = MaxTicks
    /\ Admitted = max_ticks
    /\ Len(queue) = max_ticks - 1

\* The state of the model object: everything but the position of the
\* caller, what it was handed back and the observations.
ModelState ==
    <<time, agents, servers, customers, queue, total_time_in_queue,
      total_time_in_system, total_queue_throughput, total_system_throughput,
      throughput, queue_lengths, servers_busy, rng_draws>>

\* C12: a further call of run_simulation on a model whose run has returned
\* changes nothing of the model, from the call to the return, and returns
\* the same four metrics as the call before.
C12_SecondRunIdempotent ==
    [][runs >= 1 /\ (pc = "running" \/ pc' = "running") =>
         /\ UNCHANGED ModelState
         /\ lastOp' = "run_return" => result' = result]_vars

C12_Witness ==
    /\ Returned
    /\ runs = 2
    /\ time >= 2
    /\ Len(queue) >= 1
    /\ BusyServers >= 1
    /\ result.avg_time_in_queue[1] > 0

SeqSet(q) == {q[k] : k \in 1 .. Len(q)}

NoRepeat(q) == \A k, l \in 1 .. Len(q) : k # l => q[k] # q[l]

\* C13: a customer's service-start field is written once, by the server
\* that dequeues it and with the tick of that dequeue: a customer still in
\* the queue has it unset, a dequeued one carries its dequeue tick.
C13_ServiceStartWrittenOnce ==
    /\ \A k \in 1 .. Len(queue) :
          customers[queue[k]].time_entered_service = NoneTick
    /\ \A k \in 1 .. Len(episodes) :
          customers[episodes[k].customer].time_entered_service = episodes[k].start

\* C14: a customer is in the queue if and only if it has been admitted and
\* not yet dequeued by any server; no customer is in the queue twice, and a
\* dequeued customer is never in the queue again.
C14_QueueMembership ==
    /\ SeqSet(queue) = (1 .. Admitted) \ SeqSet(dispatchLog)
    /\ NoRepeat(queue)
    /\ NoRepeat(dispatchLog)

C14_Witness ==
    /\ Len(queue) >= 2
    /\ Len(dispatchLog) >= 2
    /\ CompletedCount >= 1
    /\ BusyServers >= 1

\* C15: in every variant the k-th admitted customer (k = 0, 1, 2, ...) has
\* id k, whatever completions happen in between.
C15_SequentialIds ==
    \A k \in 1 .. Admitted : customers[k].unique_id = k - 1

\* A transition that executes a tick (to its end, or to the exception).
TickTaken == lastOp' \in {"step", "run_loop"} /\ time < max_ticks

\* C16: the arrival counter and the completion counter never decrease, the
\* arrival counter grows by at most 1 per tick, and after every tick the
\* customers arrived are at most the clock (QueueModel's two counters, and
\* in every variant the customers admitted and completed).
C16_CountersMonotone ==
    [][/\ Admitted' >= Admitted
       /\ Admitted' <= Admitted + 1
       /\ CompletedCount' >= CompletedCount
       /\ IsQueueModel =>
             /\ total_queue_throughput' >= total_queue_throughput
             /\ total_queue_throughput' <= total_queue_throughput + 1
             /\ total_system_throughput' >= total_system_throughput
       /\ pc' # "failed" =>
             /\ Admitted' <= time'
             /\ IsQueueModel => total_queue_throughput' <= time']_vars

C16_Witness ==
    /\ IsQueueModel
    /\ lastOp = "run_loop"
    /\ time >= 3
    /\ total_queue_throughput = time
    /\ total_system_throughput >= 2

IdleServers == {i \in 1 .. Len(servers) : servers[i].customer_being_served = NoneRef}

LowestIdle == CHOOSE i \in IdleServers : \A j \in IdleServers : i <= j

\* C17: the arrival is processed before the servers step, and the servers
\* step in id order: on a valid configuration, a customer admitted in a
\* tick that starts with an empty queue and an idle server is dequeued in
\* that tick by the lowest-id idle server, with service start = arrival.
C17_ArrivalBeforeServers ==
    [][(/\ TickTaken
        /\ ValidConfig
        /\ queue = <<>>
        /\ IdleServers # {}
        /\ Admitted' = Admitted + 1)
       => /\ Len(episodes') > Len(episodes)
          /\ LET e == episodes'[Len(episodes) + 1]
                 cu == customers'[Admitted + 1]
             IN  /\ e.customer = Admitted + 1
                 /\ e.server = LowestIdle
                 /\ e.start = time
                 /\ cu.time_entered_queue = time
                 /\ cu.time_entered_service = time]_vars

\* Server 2 took the arriving customer at once while server 1 was busy.
C17_Witness ==
    /\ number_of_servers = 2
    /\ Len(episodes) >= 2
    /\ LET e == episodes[Len(episodes)]
           f == episodes[Len(episodes) - 1]
       IN  /\ e.server = 2
           /\ f.server = 1
           /\ f.start < e.start
           /\ e.start = time - 1
           /\ customers[e.customer].time_entered_queue = e.start
           /\ servers[1].customer_being_served = f.customer

RECURSIVE SumWaits(_)
SumWaits(eps) ==
    IF eps = <<>> THEN 0
    ELSE (IF Head(eps).done # NoneTick
          THEN Head(eps).start - customers[Head(eps).customer].time_entered_queue
          ELSE 0) + SumWaits(Tail(eps))

RECURSIVE SumSojourns(_)
SumSojourns(eps) ==
    IF eps = <<>> THEN 0
    ELSE (IF Head(eps).done # NoneTick
          THEN Head(eps).done - customers[Head(eps).customer].time_entered_queue
          ELSE 0) + SumSojourns(Tail(eps))

\* C18: a service episode completes neither before its dispatch nor before
\* its drawn duration has elapsed: arrival <= service start <= completion
\* and completion >= start + duration for every completed customer; the
\* totals are the sums of these waits (>= 0) and sojourns (>= the wait), so
\* total_time_in_system >= total_time_in_queue >= 0.
C18_CompletionAfterService ==
    /\ \A k \in 1 .. Len(episodes) :
          LET e == episodes[k]
              cu == customers[e.customer]
          IN  /\ cu.time_entered_queue <= e.start
              /\ e.done # NoneTick =>
                    /\ e.start <= e.done
                    /\ e.start + e.duration <= e.done
    /\ total_time_in_queue = SumWaits(episodes)
    /\ total_time_in_system = SumSojourns(episodes)
    /\ 0 <= total_time_in_queue
    /\ total_time_in_queue <= total_time_in_system

C18_Witness ==
    \E k \in 1 .. Len(episodes) :
        LET e == episodes[k]
        IN  /\ e.duration = 1
            /\ e.done = e.start + 1
            /\ customers[e.customer].time_entered_queue < e.start
            /\ total_time_in_queue >= 1

HeldCustomers == {servers[i].customer_being_served : i \in 1 .. Len(servers)} \ {NoneRef}

\* C19: in QueueModel the customers admitted are the customers completed
\* plus the queue length plus the busy servers; no customer is held by two
\* servers or both held and queued.
C19_Conservation ==
    IsQueueModel =>
        /\ total_queue_throughput = Admitted
        /\ total_queue_throughput
             = total_system_throughput + Len(queue) + BusyServers
        /\ Cardinality(HeldCustomers) = BusyServers
        /\ HeldCustomers \cap SeqSet(queue) = {}

C19_Witness ==
    /\ IsQueueModel
    /\ lastOp \in {"step", "run_loop"}
    /\ total_system_throughput >= 1
    /\ Len(queue) >= 1
    /\ BusyServers = 2

\* C20: the agents registered with the scheduler have pairwise distinct
\* ids: no customer is added under an id a server or another customer holds.
C20_DistinctAgentIds ==
    \A k, l \in 1 .. Len(agents) :
        k # l => agents[k].unique_id # agents[l].unique_id

====
